---- MODULE Spec2Model ----
(***************************************************************************)
(* NeoStrand (src/arduino/NeoStrand.h): the pixel-buffer operations that   *)
(* the class adds to Adafruit_NeoPixel, as a state machine.                *)
(*                                                                         *)
(* The buffer `pixels` is a function from byte offsets 0..numBytes-1 to    *)
(* bytes.  Every operation is split at the points where it calls show()    *)
(* and delay(), so the order of writes, displays and waits is observable.  *)
(* The width of int is part of the build: 16 bits on AVR, 32 elsewhere.    *)
(***************************************************************************)
EXTENDS Integers, Sequences, FiniteSets, TLC

\* ------------------------------------------------------------------ bounds

\* Largest strand length of the stepwise model.
MaxPixels == 3
\* Scroll amounts 0..MaxAmount are tried (and 65535, the largest uint16_t).
MaxAmount == 4
\* Number of public calls made on one strand in one behaviour.
MaxCalls == 2

\* ------------------------------------------------------- machine arithmetic

\* Conversion to uint8_t / uint16_t.
U8(x) == x % 256
U16(x) == x % 65536

\* The value of an unsigned (uint16_t-ranked) expression: on a 16-bit-int
\* build the operands are promoted to unsigned int and the result wraps; on
\* a 32-bit-int build they are promoted to int, which holds the result.
UInt(bits, x) == IF bits = 16 THEN x % 65536 ELSE x

\* C's integer division, truncating toward zero.
CDiv(a, b) == IF a >= 0 THEN a \div b ELSE -((-a) \div b)

\* ------------------------------------------------------------ colour codec

\* A packed uint32_t colour is written as its four bytes, the most
\* significant first: <<White, Red, Green, Blue>> is the number
\* White * 2^24 + Red * 2^16 + Green * 2^8 + Blue.
Black == <<0, 0, 0, 0>>

\* (color >> 24) & 0xFF, (color >> 16) & 0xFF, (color >> 8) & 0xFF, color & 0xFF
White(color) == color[1]
Red(color) == color[2]
Green(color) == color[3]
Blue(color) == color[4]

\* Adafruit_NeoPixel::Color(r, g, b) and Color(r, g, b, w); the parameters
\* are uint8_t.
Color3(r, g, b) == <<0, U8(r), U8(g), U8(b)>>
Color4(r, g, b, w) == <<U8(w), U8(r), U8(g), U8(b)>>

\* channel * factor / 256 in int arithmetic, stored in a uint16_t.  With a
\* 16-bit int the product overflows above 32767, which is undefined: the
\* build either wraps the product (two's complement, then a signed
\* division) or, having assumed the product non-negative, shifts it.
ScaleChannel(bits, sovf, channel, factor) ==
    LET product == channel * factor
    IN  IF bits = 16 /\ product > 32767 /\ sovf = "wraps"
        THEN U16(CDiv(product - 65536, 256))
        ELSE U16(product \div 256)

Bright(bits, sovf, color, bright) ==
    LET factor == bright + 1
        w == ScaleChannel(bits, sovf, White(color), factor)
        r == ScaleChannel(bits, sovf, Red(color), factor)
        g == ScaleChannel(bits, sovf, Green(color), factor)
        b == ScaleChannel(bits, sovf, Blue(color), factor)
    IN  Color4(r, g, b, w)

\* A faulty variant of Wheel: the position is inverted as 254 - WheelPos.
WheelShifted(WheelPos) ==
    LET p == U8(254 - WheelPos)
    IN  IF p < 85 THEN Color3(255 - p * 3, 0, p * 3)
        ELSE IF p < 170 THEN Color3(0, (p - 85) * 3, 255 - (p - 85) * 3)
        ELSE Color3((p - 170) * 3, 255 - (p - 170) * 3, 0)

\* Wheel(WheelPos), WheelPos a uint8_t.
Wheel(WheelPos) ==
    LET p == U8(255 - WheelPos)
    IN  IF p < 85 THEN Color3(255 - p * 3, 0, p * 3)
        ELSE IF p < 170 THEN Color3(0, U8(p - 85) * 3, 255 - U8(p - 85) * 3)
        ELSE Color3(U8(p - 170) * 3, 255 - U8(p - 170) * 3, 0)

\* uint16_t hue = shift + (i * 256 / numPixels()), with i a uint16_t.
RainbowHue(bits, shift, idx, n) ==
    U16(UInt(bits, shift + (UInt(bits, idx * 256) \div n)))

\* The colour wipeWithRainbow writes at index idx of a strand of n pixels.
RainbowColor(bits, shift, idx, n) == Wheel(RainbowHue(bits, shift, idx, n) % 256)

\* ------------------------------------------------------------------- state

VARIABLES
    intBits,    \* width of int in the build: 16 (AVR) or 32
    sovf,       \* what the build makes of signed int overflow: "wraps" | "assumed_absent"
    numLEDs,    \* Adafruit_NeoPixel::numLEDs, what numPixels() returns
    wOffset,    \* index of the white byte in a pixel (equal to rOffset: no white byte)
    rOffset,    \* index of the red byte
    gOffset,    \* index of the green byte
    bOffset,    \* index of the blue byte
    pixels,     \* the buffer: byte offset -> byte
    pc,         \* position inside the running operation, "idle" between calls
    call,       \* the running (or last) call: its name and arguments
    i,          \* the loop index of a wipe
    amount,     \* the local `amount` of a scroll after reduction
    pre,        \* the buffer when the running (or last) call began
    events,     \* what the call did so far: <<"write", index>>, <<"display", 0>>, <<"wait", ms>>
    mv,         \* the arguments of the call's memmove: [dst, src, len], len = -1 when none
    calls,      \* number of public calls made
    ret         \* the value returned by the last static function call

vars == <<intBits, sovf, numLEDs, wOffset, rOffset, gOffset, bOffset, pixels,
          pc, call, i, amount, pre, events, mv, calls, ret>>

\* -------------------------------------------------------------- input sets

\* Two opaque colours with four different channel bytes, and black (the
\* default fill colour).
ColorA == Color4(20, 30, 40, 10)
ColorB == Color4(200, 255, 1, 129)
Colors == {Black, ColorA, ColorB}

Waits == {0, 5}
Shifts == {0, 100}
Amounts == (0 .. MaxAmount) \cup {65535}

\* neoPixelType: the byte order of a pixel.  NEO_GRB is the constructor's
\* default; NEO_GRBW is the four-byte order with the same first three.
NEO_GRB == [w |-> 1, r |-> 1, g |-> 0, b |-> 2]
NEO_GRBW == [w |-> 3, r |-> 1, g |-> 0, b |-> 2]
PixelTypes == {NEO_GRB, NEO_GRBW}

Builds == {<<16, "wraps">>, <<16, "assumed_absent">>, <<32, "assumed_absent">>}

\* ----------------------------------------------------------------- helpers

isRGB == wOffset = rOffset
isRGBW == wOffset /= rOffset
bytesPerPixel == IF isRGBW THEN 4 ELSE 3

numPixels == numLEDs

NumBytes(buf) == Cardinality(DOMAIN buf)

\* The bytes setPixelColor stores for colour c, by index inside the pixel.
PixelBytes(c) ==
    [k \in 0 .. bytesPerPixel - 1 |->
        IF k = rOffset THEN Red(c)
        ELSE IF k = gOffset THEN Green(c)
        ELSE IF k = bOffset THEN Blue(c)
        ELSE White(c)]

\* Adafruit_NeoPixel::setPixelColor(n, c) with the brightness unset (its value
\* after construction): nothing when n is no pixel of the strand.
setPixelColor(buf, n, c) ==
    IF n < numLEDs
    THEN [k \in DOMAIN buf |->
            IF k \div bytesPerPixel = n THEN PixelBytes(c)[k % bytesPerPixel] ELSE buf[k]]
    ELSE buf

\* memmove(pixels + dst, pixels + src, len): the bytes are read before any is
\* written.  Offsets outside the buffer are not stored in the model; mv keeps
\* the arguments.
memmove(buf, dst, src, len) ==
    [k \in DOMAIN buf |->
        IF dst <= k /\ k < dst + len
        THEN (IF (k - dst + src) \in DOMAIN buf THEN buf[k - dst + src] ELSE 0)
        ELSE buf[k]]

NoMove == [dst |-> 0, src |-> 0, len |-> -1]
NoCall == [fn |-> "none", color |-> Black, wait |-> 0, shift |-> 0, amount |-> 0, n |-> 0]

\* The arguments of a call of a static function: the colour, the brightness
\* or hue shift (in shift), the wheel position or pixel index (in amount) and
\* the strand length; the fields a function does not take are 0.
StaticCall(fn, color, bright, pos, n) ==
    [fn |-> fn, color |-> color, wait |-> 0, shift |-> bright, amount |-> pos, n |-> n]

Enter(fn, color, wait, shift, amt, n) ==
    /\ pc = "idle"
    /\ calls < MaxCalls
    /\ calls' = calls + 1
    /\ call' = [fn |-> fn, color |-> color, wait |-> wait, shift |-> shift,
                amount |-> amt, n |-> n]
    /\ pre' = pixels
    /\ UNCHANGED <<intBits, sovf, numLEDs, wOffset, rOffset, gOffset, bOffset, ret>>

Frame == UNCHANGED <<intBits, sovf, numLEDs, wOffset, rOffset, gOffset, bOffset,
                     call, pre, calls, ret>>

\* -------------------------------------------------------------------- Init

\* After construction: the buffer is allocated for n pixels and zeroed.
Init ==
    /\ \E b \in Builds : intBits = b[1] /\ sovf = b[2]
    /\ numLEDs \in 0 .. MaxPixels
    /\ \E t \in PixelTypes :
          /\ wOffset = t.w
          /\ rOffset = t.r
          /\ gOffset = t.g
          /\ bOffset = t.b
          /\ pixels = [k \in 0 .. numLEDs * (IF t.w /= t.r THEN 4 ELSE 3) - 1 |-> 0]
    /\ pc = "idle"
    /\ call = NoCall
    /\ i = 0
    /\ amount = 0
    /\ pre = pixels
    /\ events = <<>>
    /\ mv = NoMove
    /\ calls = 0
    /\ ret = Black

\* ----------------------------------------------------------- setPixelColor

\* The inherited setPixelColor, called by the sketch.
SetPixelColor(n, c) ==
    /\ Enter("setPixelColor", c, 0, 0, 0, n)
    /\ pixels' = setPixelColor(pixels, n, c)
    /\ events' = <<>>
    /\ mv' = NoMove
    /\ UNCHANGED <<pc, i, amount>>

\* ------------------------------------------------- wipeWithColor / Rainbow

WipeWithColor(color, wait) ==
    /\ Enter("wipeWithColor", color, wait, 0, 0, 0)
    /\ pc' = "wipe_test"
    /\ i' = 0
    /\ events' = <<>>
    /\ mv' = NoMove
    /\ UNCHANGED <<pixels, amount>>

WipeWithRainbow(shift, wait) ==
    /\ Enter("wipeWithRainbow", Black, wait, shift, 0, 0)
    /\ pc' = "wipe_test"
    /\ i' = 0
    /\ events' = <<>>
    /\ mv' = NoMove
    /\ UNCHANGED <<pixels, amount>>

\* The colour the running wipe stores at index idx.
WipeColor(idx) ==
    IF call.fn = "wipeWithRainbow"
    THEN RainbowColor(intBits, call.shift, idx, numPixels)
    ELSE call.color

\* A faulty variant of WipeLoopTest: the loop stops one pixel early.
WipeLoopTestShort == i + 1 < numPixels

\* The loop condition of both wipes: i < numPixels().
WipeLoopTest == i < numPixels

\* The loop condition holds: the body's setPixelColor(i, ...).
WipeWrite ==
    /\ pc = "wipe_test"
    /\ WipeLoopTest
    /\ pixels' = setPixelColor(pixels, i, WipeColor(i))
    /\ events' = Append(events, <<"write", i>>)
    /\ pc' = IF call.wait /= 0 THEN "wipe_show" ELSE "wipe_test"
    /\ i' = IF call.wait /= 0 THEN i ELSE i + 1
    /\ UNCHANGED <<amount, mv>>
    /\ Frame

\* if (wait) show();
WipeShow ==
    /\ pc = "wipe_show"
    /\ events' = Append(events, <<"display", 0>>)
    /\ pc' = "wipe_delay"
    /\ UNCHANGED <<pixels, i, amount, mv>>
    /\ Frame

\* A faulty variant of WipeDelay: the delay is left out.
WipeDelaySkipped ==
    /\ pc = "wipe_delay"
    /\ pc' = "wipe_test"
    /\ i' = i + 1
    /\ UNCHANGED <<pixels, events, amount, mv>>
    /\ Frame

\* delay(wait); i++
WipeDelay ==
    /\ pc = "wipe_delay"
    /\ events' = Append(events, <<"wait", call.wait>>)
    /\ pc' = "wipe_test"
    /\ i' = i + 1
    /\ UNCHANGED <<pixels, amount, mv>>
    /\ Frame

\* A faulty variant of WipeExit: show() is called whatever wait is.
WipeExitAlwaysShows ==
    /\ pc = "wipe_test"
    /\ ~WipeLoopTest
    /\ events' = Append(events, <<"display", 0>>)
    /\ pc' = "idle"
    /\ UNCHANGED <<pixels, i, amount, mv>>
    /\ Frame

\* The loop ends; if (!wait) show(); return.
WipeExit ==
    /\ pc = "wipe_test"
    /\ ~WipeLoopTest
    /\ events' = IF call.wait = 0 THEN Append(events, <<"display", 0>>) ELSE events
    /\ pc' = "idle"
    /\ UNCHANGED <<pixels, i, amount, mv>>
    /\ Frame

\* ------------------------------------------- scrollForward / scrollBackward

\* Two faulty variants of ForwardMove: the whole buffer is moved; the
\* destination is amount bytes, not amount pixels, into the buffer.
ForwardMoveWhole(bits, n, stride, a) ==
    [dst |-> UInt(bits, stride * a), src |-> 0, len |-> UInt(bits, n * stride)]
ForwardMoveByPixels(bits, n, stride, a) ==
    [dst |-> UInt(bits, a), src |-> 0, len |-> UInt(bits, UInt(bits, n - a) * stride)]

\* memmove(pixels + stride*amount, pixels, (numPixels() - amount) * stride)
ForwardMove(bits, n, stride, a) ==
    [dst |-> UInt(bits, stride * a), src |-> 0,
     len |-> UInt(bits, UInt(bits, n - a) * stride)]

\* memmove(pixels, pixels + stride*amount, (numPixels() - amount) * stride)
BackwardMove(bits, n, stride, a) ==
    [dst |-> 0, src |-> UInt(bits, stride * a),
     len |-> UInt(bits, UInt(bits, n - a) * stride)]

\* A faulty variant of ReduceAmount: an amount of numPixels() is kept.
ReduceAmountKeepsWhole(amt, n) == IF amt = n THEN amt ELSE amt % n

\* amount = amount % numPixels()
ReduceAmount(amt, n) == amt % n

\* The index scrollForward's fill loop writes once `amount--` left a.
ForwardFillIndex(bits, n, a) == a

\* A faulty variant of BackwardFillIndex: the - 1 is left out.
BackwardFillIndexOffByOne(bits, n, a) == U16(UInt(bits, n - a))

\* The index scrollBackward's fill loop writes once `amount--` left a:
\* numPixels() - amount - 1, passed as a uint16_t.
BackwardFillIndex(bits, n, a) == U16(UInt(bits, UInt(bits, n - a) - 1))

\* The two scrolls differ in the memmove and in the fill index only.
Scroll(fn, amt, color, fill) ==
    /\ Enter(fn, color, 0, 0, amt, 0)
    /\ events' = <<>>
    /\ i' = i
    /\ IF numPixels = 0
       THEN /\ pc' = "idle"
            /\ amount' = amt
            /\ mv' = NoMove
            /\ pixels' = pixels
       ELSE LET stride == bytesPerPixel
                a == ReduceAmount(amt, numPixels)
                m == IF fn = "scrollForward"
                     THEN ForwardMove(intBits, numPixels, stride, a)
                     ELSE BackwardMove(intBits, numPixels, stride, a)
            IN  IF a = 0
                THEN /\ pc' = "idle"
                     /\ amount' = a
                     /\ mv' = NoMove
                     /\ pixels' = pixels
                ELSE /\ pc' = fill
                     /\ amount' = a
                     /\ mv' = m
                     /\ pixels' = memmove(pixels, m.dst, m.src, m.len)

ScrollForward(amt, color) == Scroll("scrollForward", amt, color, "sf_fill")

ScrollBackward(amt, color) == Scroll("scrollBackward", amt, color, "sb_fill")

\* while (amount--) setPixelColor(..., color);
Fill(at) ==
    /\ pc = at
    /\ IF amount = 0
       THEN /\ amount' = U16(amount - 1)
            /\ pc' = "idle"
            /\ UNCHANGED <<pixels, events>>
       ELSE LET idx == IF at = "sf_fill"
                       THEN ForwardFillIndex(intBits, numPixels, amount - 1)
                       ELSE BackwardFillIndex(intBits, numPixels, amount - 1)
            IN  /\ amount' = amount - 1
                /\ pc' = pc
                /\ pixels' = setPixelColor(pixels, idx, call.color)
                /\ events' = Append(events, <<"write", idx>>)
    /\ UNCHANGED <<i, mv>>
    /\ Frame

ScrollForwardFill == Fill("sf_fill")

ScrollBackwardFill == Fill("sb_fill")

\* -------------------------------------------------------------------- Next

Next ==
    \/ \E n \in 0 .. numLEDs, c \in Colors : SetPixelColor(n, c)
    \/ \E c \in Colors, w \in Waits : WipeWithColor(c, w)
    \/ \E s \in Shifts, w \in Waits : WipeWithRainbow(s, w)
    \/ WipeWrite
    \/ WipeShow
    \/ WipeDelay
    \/ WipeExit
    \/ \E a \in Amounts, c \in Colors : ScrollForward(a, c)
    \/ \E a \in Amounts, c \in Colors : ScrollBackward(a, c)
    \/ ScrollForwardFill
    \/ ScrollBackwardFill

Spec == Init /\ [][Next]_vars

\* The steps of a call that began.
Running ==
    WipeWrite \/ WipeShow \/ WipeDelay \/ WipeExit \/ ScrollForwardFill \/ ScrollBackwardFill

\* --------------------------------------------------------- static functions

\* Strand lengths for the per-index colour of wipeWithRainbow.
LongStrand == 300
StrandLengths == (1 .. MaxPixels) \cup {85, 255, 256, 257, LongStrand}

\* Every third channel value, 0 and 255 among them.
ChannelValues == {v \in 0 .. 255 : v % 3 = 0}

\* One colour per channel value, the four channels all different.
StaticColors == {Color4(v, 255 - v, (v + 64) % 256, (v * 3) % 256) : v \in ChannelValues}

\* The calls of the static functions that are tried, one per behaviour.
StaticCalls ==
    {StaticCall("Bright", c, b, 0, 0) : c \in StaticColors, b \in 0 .. 255}
    \cup {StaticCall("Wheel", Black, 0, p, 0) : p \in 0 .. 255}
    \cup UNION {{StaticCall("RainbowColor", Black, s, idx, n) :
                    s \in Shifts \cup {255}, idx \in 0 .. n - 1} : n \in StrandLengths}

\* No strand is involved: the inputs of one call are drawn here.
StaticInit ==
    /\ \E b \in Builds : intBits = b[1] /\ sovf = b[2]
    /\ numLEDs = 0
    /\ wOffset = NEO_GRB.w
    /\ rOffset = NEO_GRB.r
    /\ gOffset = NEO_GRB.g
    /\ bOffset = NEO_GRB.b
    /\ pixels = [k \in 0 .. -1 |-> 0]
    /\ pc = "static_call"
    /\ call \in StaticCalls
    /\ i = 0
    /\ amount = 0
    /\ pre = pixels
    /\ events = <<>>
    /\ mv = NoMove
    /\ calls = 0
    /\ ret = Black

Return(value) ==
    /\ pc = "static_call"
    /\ pc' = "static_done"
    /\ ret' = value
    /\ UNCHANGED <<intBits, sovf, numLEDs, wOffset, rOffset, gOffset, bOffset,
                   pixels, call, i, amount, pre, events, mv, calls>>

\* Bright(color, bright)
CallBright ==
    /\ call.fn = "Bright"
    /\ Return(Bright(intBits, sovf, call.color, call.shift))

\* Wheel(WheelPos)
CallWheel ==
    /\ call.fn = "Wheel"
    /\ Return(Wheel(call.amount))

\* The colour wipeWithRainbow(shift, ...) stores at index idx of n pixels.
CallRainbowColor ==
    /\ call.fn = "RainbowColor"
    /\ Return(RainbowColor(intBits, call.shift, call.amount, call.n))

StaticNext == CallBright \/ CallWheel \/ CallRainbowColor

StaticSpec == StaticInit /\ [][StaticNext]_vars

\* -------------------------------------------------------------- properties

\* Pixel p of buf holds colour c: its red, green and blue bytes, and on a
\* four-byte strand its white byte, are c's.
Holds(buf, p, c) ==
    /\ buf[p * bytesPerPixel + rOffset] = Red(c)
    /\ buf[p * bytesPerPixel + gOffset] = Green(c)
    /\ buf[p * bytesPerPixel + bOffset] = Blue(c)
    /\ isRGBW => buf[p * bytesPerPixel + wOffset] = White(c)

\* Pixel p of bufA holds exactly the bytes of pixel q of bufB.
SamePixel(bufA, p, bufB, q) ==
    \A k \in 0 .. bytesPerPixel - 1 :
        bufA[p * bytesPerPixel + k] = bufB[q * bytesPerPixel + k]

Count(kind) == Cardinality({k \in 1 .. Len(events) : events[k][1] = kind})

Returned(fn) == pc = "idle" /\ call.fn = fn

Mutators == {"wipeWithColor", "wipeWithRainbow", "scrollForward", "scrollBackward"}

\* A buffer whose pixels are not all alike.
Varied(buf) == \E p, q \in 0 .. numLEDs - 1 : ~SamePixel(buf, p, buf, q)

\* C1: after scrollForward(amount, c) on n >= 1 pixels with a = amount mod n
\* not 0, pixel p holds what pixel p-a held before for a <= p < n, pixels
\* 0..a-1 hold c (so nothing of the old last a pixels is kept: the whole
\* buffer is fixed by the old first n-a pixels and c), and the call made no
\* display and no wait.
C1_ScrollForwardPost ==
    (Returned("scrollForward") /\ numLEDs >= 1 /\ call.amount % numLEDs /= 0) =>
        LET a == call.amount % numLEDs
        IN  /\ \A p \in a .. numLEDs - 1 : SamePixel(pixels, p, pre, p - a)
            /\ \A p \in 0 .. a - 1 : Holds(pixels, p, call.color)
            /\ Count("display") = 0
            /\ Count("wait") = 0

C1_Witness ==
    /\ Returned("scrollForward")
    /\ numLEDs = 3
    /\ call.amount > numLEDs
    /\ call.amount % numLEDs = 1
    /\ call.color = ColorA
    /\ Varied(pre)
    /\ ~SamePixel(pre, 2, pre, 1)

\* C2: after scrollBackward(amount, c) on n >= 1 pixels with a = amount mod n
\* not 0, pixel p holds what pixel p+a held before for 0 <= p < n-a, pixels
\* n-a..n-1 hold c (so nothing of the old first a pixels is kept), and the
\* call made no display and no wait.
C2_ScrollBackwardPost ==
    (Returned("scrollBackward") /\ numLEDs >= 1 /\ call.amount % numLEDs /= 0) =>
        LET a == call.amount % numLEDs
        IN  /\ \A p \in 0 .. numLEDs - a - 1 : SamePixel(pixels, p, pre, p + a)
            /\ \A p \in numLEDs - a .. numLEDs - 1 : Holds(pixels, p, call.color)
            /\ Count("display") = 0
            /\ Count("wait") = 0

C2_Witness ==
    /\ Returned("scrollBackward")
    /\ numLEDs = 3
    /\ call.amount > numLEDs
    /\ call.amount % numLEDs = 1
    /\ call.color = ColorB
    /\ isRGBW
    /\ Varied(pre)
    /\ ~SamePixel(pre, 0, pre, 2)

\* C3 as stated: on a strand of no pixels each of the four mutators, whatever
\* its arguments, makes no display call and no wait call.
C3_ZeroLengthNoDisplay ==
    (numLEDs = 0 /\ call.fn \in Mutators) => events = <<>>

\* C3 amended: on a strand of no pixels the two scrolls, and the two wipes
\* called with a delay above 0, make no display call and no wait call; a wipe
\* called with delay 0 makes no wait call and exactly one display call; the
\* (empty) buffer is never written.
C3_ZeroLengthAmended ==
    (numLEDs = 0 /\ call.fn \in Mutators) =>
        /\ pixels = pre
        /\ Count("write") = 0
        /\ Count("wait") = 0
        /\ pc = "idle" =>
              Count("display") =
                 (IF call.fn \in {"wipeWithColor", "wipeWithRainbow"} /\ call.wait = 0
                  THEN 1 ELSE 0)
        /\ pc /= "idle" => Count("display") = 0

C3_Witness ==
    /\ numLEDs = 0
    /\ Returned("wipeWithRainbow")
    /\ call.wait = 0
    /\ events = << <<"display", 0>> >>

\* The events of wipeWithColor(color, 0) on n pixels.
InstantEvents(n) ==
    [k \in 1 .. n + 1 |-> IF k <= n THEN <<"write", k - 1>> ELSE <<"display", 0>>]

\* The events of wipeWithColor(color, d) on n pixels, d > 0.
AnimatedEvents(n, d) ==
    [k \in 1 .. 3 * n |->
        IF (k - 1) % 3 = 0 THEN <<"write", (k - 1) \div 3>>
        ELSE IF (k - 1) % 3 = 1 THEN <<"display", 0>>
        ELSE <<"wait", d>>]

IsPrefix(s, t) == Len(s) <= Len(t) /\ \A k \in 1 .. Len(s) : s[k] = t[k]

\* C4: wipeWithColor(color, 0) on n >= 1 pixels writes pixels 0..n-1 in
\* increasing order, then calls display once, when every pixel holds color,
\* and never waits.
C4_InstantWipe ==
    (call.fn = "wipeWithColor" /\ call.wait = 0 /\ numLEDs >= 1) =>
        /\ IsPrefix(events, InstantEvents(numLEDs))
        /\ pc = "idle" =>
              /\ events = InstantEvents(numLEDs)
              /\ \A p \in 0 .. numLEDs - 1 : Holds(pixels, p, call.color)
        /\ pc /= "idle" => Count("display") = 0

C4_Witness ==
    /\ Returned("wipeWithColor")
    /\ call.wait = 0
    /\ call.color = ColorA
    /\ numLEDs = 3
    /\ Varied(pre)
    /\ Count("display") = 1

\* C5: wipeWithColor(color, d) with d > 0 on n >= 1 pixels does write(0),
\* display, wait(d), write(1), display, wait(d), ..., n times and nothing
\* more; at the k-th display pixels 0..k-1 hold color and pixels k..n-1 what
\* they held before the call; a call that began always has a next step, so it
\* runs to its end.
C5_AnimatedWipe ==
    (call.fn = "wipeWithColor" /\ call.wait > 0 /\ numLEDs >= 1) =>
        /\ IsPrefix(events, AnimatedEvents(numLEDs, call.wait))
        /\ pc = "idle" => events = AnimatedEvents(numLEDs, call.wait)
        /\ pc \in {"wipe_show", "wipe_delay"} =>
              /\ Count("display") = (IF pc = "wipe_show" THEN i ELSE i + 1)
              /\ \A p \in 0 .. i : Holds(pixels, p, call.color)
              /\ \A p \in i + 1 .. numLEDs - 1 : SamePixel(pixels, p, pre, p)
        /\ pc /= "idle" => ENABLED Running

C5_Witness ==
    /\ call.fn = "wipeWithColor"
    /\ call.wait = 5
    /\ call.color = ColorB
    /\ numLEDs = 3
    /\ pc = "wipe_delay"
    /\ i = 1
    /\ Varied(pre)
    /\ ~Holds(pre, 2, ColorB)

\* C8: scrollForward and scrollBackward with n = 0 or amount mod n = 0 leave
\* every byte of the buffer as it was, write no pixel, move no byte and call
\* neither display nor wait.
C8_ScrollNoOp ==
    (call.fn \in {"scrollForward", "scrollBackward"}
        /\ (numLEDs = 0 \/ call.amount % numLEDs = 0)) =>
        /\ pc = "idle"
        /\ pixels = pre
        /\ events = <<>>
        /\ mv = NoMove

C8_Witness ==
    /\ Returned("scrollBackward")
    /\ numLEDs = 2
    /\ call.amount = 4
    /\ call.color = ColorA
    /\ Varied(pre)
    /\ ~Holds(pre, 0, ColorA)

\* What C10 says of one state.
ScrollSafe ==
    /\ NumBytes(pixels) = numLEDs * bytesPerPixel
    /\ DOMAIN pixels = 0 .. numLEDs * bytesPerPixel - 1
    /\ NumBytes(pre) = NumBytes(pixels)
    /\ mv.len >= 0 =>
          /\ mv.src >= 0 /\ mv.src + mv.len <= numLEDs * bytesPerPixel
          /\ mv.dst >= 0 /\ mv.dst + mv.len <= numLEDs * bytesPerPixel
    /\ \A k \in 1 .. Len(events) :
          events[k][1] = "write" => (0 <= events[k][2] /\ events[k][2] < numLEDs)
    /\ (call.fn \in {"scrollForward", "scrollBackward"} /\ numLEDs >= 1) =>
          /\ pc \in {"sf_fill", "sb_fill"} =>
                /\ Count("write") + amount = call.amount % numLEDs
                /\ ENABLED Running
          /\ pc = "idle" => Count("write") = call.amount % numLEDs

\* C10: the buffer always has numLEDs * stride bytes, and no step changes
\* numLEDs or the stride; the block move of a scroll reads and writes only
\* offsets below numLEDs * stride; every fill write is at an index below
\* numLEDs; the fill loop makes amount mod n writes and then ends.
C10_ScrollSafety ==
    /\ []ScrollSafe
    /\ [][numLEDs' = numLEDs /\ bytesPerPixel' = bytesPerPixel]_vars

C10_Witness ==
    /\ Returned("scrollForward")
    /\ numLEDs = 2
    /\ isRGBW
    /\ call.amount = 65535
    /\ mv.len = 4
    /\ mv.dst = 4
    /\ Count("write") = 1

\* The colour channels of c that are 0, among Red, Green and Blue.
ZeroChannels(c) == {k \in 2 .. 4 : c[k] = 0}

Boundaries == {0, 85, 170}

\* C7 as stated: Wheel(0), Wheel(85) and Wheel(170) each have exactly one of
\* Red, Green, Blue at 0, and White at 0.
C7_BoundaryOneZero ==
    (pc = "static_done" /\ call.fn = "Wheel" /\ call.amount \in Boundaries) =>
        /\ Cardinality(ZeroChannels(ret)) = 1
        /\ White(ret) = 0

\* C7 amended: Wheel(0), Wheel(85) and Wheel(170) each have exactly two of
\* Red, Green, Blue at 0 and the third at 255, White at 0; the channel at 255
\* is Red for 0, Green for 85 and Blue for 170.
C7_BoundaryPrimaries ==
    (pc = "static_done" /\ call.fn = "Wheel" /\ call.amount \in Boundaries) =>
        /\ Cardinality(ZeroChannels(ret)) = 2
        /\ White(ret) = 0
        /\ call.amount = 0 => Red(ret) = 255
        /\ call.amount = 85 => Green(ret) = 255
        /\ call.amount = 170 => Blue(ret) = 255

C7_Witness ==
    /\ pc = "static_done"
    /\ call.fn = "Wheel"
    /\ call.amount = 170
    /\ ret = <<0, 0, 0, 255>>

\* C6: the colour wipeWithRainbow stores at index idx of n pixels is
\* Wheel((shift + floor(idx * 256 / n)) mod 256), idx * 256 / n being the
\* mathematical value, on every build.
C6_RainbowHue ==
    (pc = "static_done" /\ call.fn = "RainbowColor") =>
        ret = Wheel((call.shift + ((call.amount * 256) \div call.n)) % 256)

\* C9: each channel of Bright(color, factor) is floor(channel * (factor + 1)
\* / 256) of the same channel of color.
C9_BrightChannels ==
    (pc = "static_done" /\ call.fn = "Bright") =>
        \A k \in 1 .. 4 : ret[k] = (call.color[k] * (call.shift + 1)) \div 256

====
